---- MODULE Spec2Model ----
(***************************************************************************)
(* A model of vsv (rust): discovery of runit service directories, the      *)
(* reconstruction of each service's state from its control files, the      *)
(* status listing, and the enable/disable file toggles.                    *)
(*                                                                         *)
(* Text is modelled as rust holds it: a String is a sequence of UTF-8      *)
(* bytes, len() counts bytes, chars() walks code points.  A path is the    *)
(* sequence of its components below the service directory (SVDIR).         *)
(***************************************************************************)
EXTENDS Integers, Sequences, FiniteSets, TLC

VARIABLES
    fs,        \* the service directory: name -> what is on disk under SVDIR/name
    proc,      \* the process table: pid -> content of PROC_DIR/<pid>/cmdline
    args,      \* the command line of the running invocation
    cfg,       \* the Config of the running invocation
    pc,        \* position of the running invocation
    services,  \* Result of get_services: [ok, val]
    slots,     \* the parallel map's result slots, one per discovered service
    stdout,    \* the lines and diagnostics written so far, in order
    status,    \* the exit status: "none" while running, else 0 or 1
    fs0,       \* the filesystem when the running invocation started
    history    \* what the invocations so far did to each service, when recorded

vars == <<fs, proc, args, cfg, pc, services, slots, stdout, status, fs0, history>>

----------------------------------------------------------------------------
(* Bounds of the model. *)

\* how many names of NamePool may exist under the service directory
MaxServices == 5
\* how many of them may be service directories when the status is listed
MaxListed == 2
\* how many of them may be named to enable / disable
MaxTargets == 2
\* the longest operand list given to enable / disable
MaxOperands == 2
\* the most characters of a text given to trim_long_string
MaxText == 4
\* the largest limit given to trim_long_string
MaxWidth == 5
\* the most units of time in a duration given to relative_duration
MaxCount == 3

----------------------------------------------------------------------------
(* Text: byte strings. *)

S_log      == <<108, 111, 103>>                  \* "log"
S_dash_log == <<45, 32, 108, 111, 103>>          \* "- log"
S_run      == <<114, 117, 110>>                  \* "run"
S_down     == <<100, 111, 119, 110>>             \* "down"
S_finish   == <<102, 105, 110, 105, 115, 104>>   \* "finish"
S_unknown  == <<117, 110, 107, 110, 111, 119, 110>>  \* "unknown"
S_na       == <<110, 47, 97>>                    \* "n/a"
S_dashes   == <<45, 45, 45>>                     \* "---"
S_true     == <<116, 114, 117, 101>>             \* "true"
S_false    == <<102, 97, 108, 115, 101>>         \* "false"
S_check    == <<226, 156, 148>>                  \* "✔" (U+2714)
S_X        == <<88>>                             \* "X"
S_qmark    == <<63>>                             \* "?"

\* The names that may appear under the service directory: "b", "a", "B",
\* "a-b", a name that is not UTF-8 (the byte 0xFF), "ab".
NamePool == << <<98>>, <<97>>, <<66>>, <<97, 45, 98>>, <<255>>, <<97, 98>> >>

Min(a, b) == IF a <= b THEN a ELSE b

FirstNames(k) == { NamePool[i] : i \in 1..Min(k, Len(NamePool)) }

Names       == FirstNames(MaxServices)
StatusNames == FirstNames(Min(MaxListed, MaxServices))
TargetNames == FirstNames(Min(MaxTargets, MaxServices))

\* Lexicographic order of two sequences of numbers (how rust orders str,
\* OsStr and [u8]: byte by byte, a proper prefix first).
RECURSIVE SeqLess(_, _)
SeqLess(a, b) ==
    IF b = <<>> THEN FALSE
    ELSE IF a = <<>> THEN TRUE
    ELSE IF Head(a) # Head(b) THEN Head(a) < Head(b)
    ELSE SeqLess(Tail(a), Tail(b))

\* Order of two paths: component by component, each component as bytes.
RECURSIVE PathLess(_, _)
PathLess(p, q) ==
    IF q = <<>> THEN FALSE
    ELSE IF p = <<>> THEN TRUE
    ELSE IF Head(p) # Head(q) THEN SeqLess(Head(p), Head(q))
    ELSE PathLess(Tail(p), Tail(q))

Contains_ignore_case(s, pat) ==
    LET lower(t) == [i \in 1..Len(t) |-> IF t[i] >= 65 /\ t[i] <= 90 THEN t[i] + 32 ELSE t[i]]
    IN  \E i \in 0..(Len(s) - Len(pat)) :
            SubSeq(lower(s), i + 1, i + Len(pat)) = lower(pat)

\* str::contains: pat occurs in s as a contiguous run of bytes.
Contains(s, pat) ==
    \E i \in 0..(Len(s) - Len(pat)) : SubSeq(s, i + 1, i + Len(pat)) = pat

IsWhite(c) == c \in {9, 10, 11, 12, 13, 32}

RECURSIVE TrimStart(_)
TrimStart(s) ==
    IF s # <<>> /\ IsWhite(Head(s)) THEN TrimStart(Tail(s)) ELSE s

TrimEnd(s) ==
    LET black == { i \in 1..Len(s) : ~ IsWhite(s[i]) }
    IN  IF black = {} THEN <<>>
        ELSE SubSeq(s, 1, CHOOSE i \in black : \A j \in black : j <= i)

\* str::trim
Trim(s) == TrimEnd(TrimStart(s))

----------------------------------------------------------------------------
(* UTF-8: a String must hold valid UTF-8, chars() walks its code points.   *)
(* Sequences of one, two and three bytes are decoded; the inputs of the    *)
(* model hold no four-byte sequence.                                       *)

IsCont(b) == b >= 128 /\ b <= 191

RECURSIVE ValidUtf8(_)
ValidUtf8(s) ==
    IF s = <<>> THEN TRUE
    ELSE IF s[1] < 128 THEN ValidUtf8(Tail(s))
    ELSE IF s[1] >= 194 /\ s[1] <= 223
        THEN Len(s) >= 2 /\ IsCont(s[2]) /\ ValidUtf8(SubSeq(s, 3, Len(s)))
    ELSE IF s[1] >= 224 /\ s[1] <= 239
        THEN Len(s) >= 3 /\ IsCont(s[2]) /\ IsCont(s[3])
             /\ ValidUtf8(SubSeq(s, 4, Len(s)))
    ELSE FALSE

----------------------------------------------------------------------------
(* Option and Result values: [ok, val].                                    *)

Some(v)  == [ok |-> TRUE, val |-> v]
None     == [ok |-> FALSE, val |-> <<>>]
Ok(v)    == [ok |-> TRUE, val |-> v]
Err      == [ok |-> FALSE, val |-> <<>>]
NoPid    == [ok |-> FALSE, val |-> 0]

----------------------------------------------------------------------------
(* The filesystem below the service directory.                             *)
(*   fs[name] = [dir |-> D, log |-> D], D the directory SVDIR/name and     *)
(*   SVDIR/name/log:                                                       *)
(*     kind       "none" (no such entry), "file" or "dir"                  *)
(*     supervise  SVDIR/name/supervise exists                              *)
(*     down       SVDIR/name/down exists                                   *)
(*     writable   the user may create and remove files in the directory    *)
(*     pid, stat  the files supervise/pid and supervise/stat               *)
(*     age        seconds since supervise/stat was modified                *)

NoFile     == [exists |-> FALSE, data |-> <<>>]
File(data) == [exists |-> TRUE, data |-> data]

NoDir == [kind |-> "none", supervise |-> FALSE, down |-> FALSE,
          writable |-> FALSE, pid |-> NoFile, stat |-> NoFile, age |-> 0]

PlainFile == [NoDir EXCEPT !.kind = "file"]

\* The directory a path names: <<name>> or <<name, "log">>.
Node(f, path) ==
    IF path = <<>> \/ path[1] \notin DOMAIN f THEN NoDir
    ELSE IF Len(path) = 1 THEN f[path[1]].dir
    ELSE IF Len(path) = 2 /\ path[2] = S_log THEN f[path[1]].log
    ELSE NoDir

\* The filesystem with the directory at path replaced by d.
WithNode(f, path, d) ==
    IF path = <<>> \/ path[1] \notin DOMAIN f THEN f
    ELSE IF Len(path) = 1 THEN [f EXCEPT ![path[1]].dir = d]
    ELSE IF Len(path) = 2 /\ path[2] = S_log THEN [f EXCEPT ![path[1]].log = d]
    ELSE f

\* fs::read_to_string: the content, or an error when the file is missing
\* or does not hold valid UTF-8.
read_to_string(file) ==
    IF file.exists /\ ValidUtf8(file.data) THEN Ok(file.data) ELSE Err

----------------------------------------------------------------------------
(* RunitService: [path, name].                                             *)

RunitService_new(name, path) == [path |-> path, name |-> name]

ServiceLess_name_first(a, b) ==
    \/ SeqLess(a.name, b.name)
    \/ a.name = b.name /\ PathLess(a.path, b.path)

\* derive(Ord): the fields in their order of declaration, path then name.
ServiceLess(a, b) ==
    \/ PathLess(a.path, b.path)
    \/ a.path = b.path /\ SeqLess(a.name, b.name)

valid_any_dir(f, svc) == Node(f, svc.path).kind = "dir"

valid(f, svc) == Node(f, svc.path).kind = "dir" /\ Node(f, svc.path).supervise

enabled(f, svc) == ~ (Node(f, svc.path).kind = "dir" /\ Node(f, svc.path).down)

\* fs::remove_file(path/down): what it returns, "ok" or the error kind.
remove_file_down(d) ==
    IF d.kind = "none" THEN "NotFound"
    ELSE IF d.kind = "file" THEN "NotADirectory"
    ELSE IF ~ d.down THEN "NotFound"
    ELSE IF ~ d.writable THEN "PermissionDenied"
    ELSE "ok"

enable_no_enoent(f, svc) ==
    LET d == Node(f, svc.path)
        r == remove_file_down(d)
    IN  IF r = "ok"
        THEN [ok |-> TRUE, fs |-> WithNode(f, svc.path, [d EXCEPT !.down = FALSE])]
        ELSE [ok |-> FALSE, fs |-> f]

enable_keeps_down(f, svc) ==
    LET d == Node(f, svc.path)
        r == remove_file_down(d)
    IN  IF r \in {"ok", "NotFound"} THEN [ok |-> TRUE, fs |-> f]
        ELSE [ok |-> FALSE, fs |-> f]

\* enable(): [ok, fs], the Result and the filesystem it leaves.
enable(f, svc) ==
    LET d == Node(f, svc.path)
        r == remove_file_down(d)
    IN  IF r = "ok"
        THEN [ok |-> TRUE, fs |-> WithNode(f, svc.path, [d EXCEPT !.down = FALSE])]
        ELSE IF r = "NotFound" THEN [ok |-> TRUE, fs |-> f]
        ELSE [ok |-> FALSE, fs |-> f]

disable_all(f, svc) ==
    LET d == Node(f, svc.path)
    IN  IF d.kind = "dir" /\ d.writable
        THEN [ok |-> TRUE,
              fs |-> [n \in DOMAIN f |->
                        IF f[n].dir.kind = "dir"
                        THEN [f[n] EXCEPT !.dir.down = TRUE] ELSE f[n]]]
        ELSE [ok |-> FALSE, fs |-> f]

\* disable(): fs::File::create(path/down).
disable(f, svc) ==
    LET d == Node(f, svc.path)
    IN  IF d.kind = "dir" /\ d.writable
        THEN [ok |-> TRUE, fs |-> WithNode(f, svc.path, [d EXCEPT !.down = TRUE])]
        ELSE [ok |-> FALSE, fs |-> f]

\* str::parse::<pid_t>() (pid_t is i32): an optional sign, then one or more
\* decimal digits, the value within the range of i32.
IsDigit(c) == c >= 48 /\ c <= 57

RECURSIVE StripZeros(_)
StripZeros(s) == IF s # <<>> /\ Head(s) = 48 THEN StripZeros(Tail(s)) ELSE s

RECURSIVE DecValue(_, _)
DecValue(s, acc) ==
    IF s = <<>> THEN acc ELSE DecValue(Tail(s), acc * 10 + (Head(s) - 48))

I32MaxDigits == <<50, 49, 52, 55, 52, 56, 51, 54, 52, 55>>  \* "2147483647"
I32MinDigits == <<50, 49, 52, 55, 52, 56, 51, 54, 52, 56>>  \* "2147483648"

parse_pid(s) ==
    LET signed == s # <<>> /\ s[1] \in {43, 45}
        neg    == s # <<>> /\ s[1] = 45
        digits == IF signed THEN Tail(s) ELSE s
        sig    == StripZeros(digits)
        limit  == IF neg THEN I32MinDigits ELSE I32MaxDigits
    IN  IF digits = <<>> \/ \E i \in 1..Len(digits) : ~ IsDigit(digits[i])
        THEN NoPid
        ELSE IF Len(sig) > Len(limit) \/ (Len(sig) = Len(limit) /\ SeqLess(limit, sig))
        THEN NoPid
        ELSE IF neg /\ sig = I32MinDigits
        THEN [ok |-> TRUE, val |-> (0 - DecValue(I32MaxDigits, 0)) - 1]
        ELSE [ok |-> TRUE, val |-> IF neg THEN 0 - DecValue(sig, 0) ELSE DecValue(sig, 0)]

RECURSIVE LeadingDigits(_)
LeadingDigits(s) ==
    IF s # <<>> /\ IsDigit(Head(s)) /\ Len(s) < 9
    THEN <<Head(s)>> \o LeadingDigits(Tail(s)) ELSE <<>>

get_pid_atoi(f, svc) ==
    LET r == read_to_string(Node(f, svc.path).pid)
    IN  IF r.ok THEN [ok |-> TRUE, val |-> DecValue(LeadingDigits(Trim(r.val)), 0)]
        ELSE NoPid

\* get_pid(): read supervise/pid, trim, parse.
get_pid(f, svc) ==
    LET r == read_to_string(Node(f, svc.path).pid)
    IN  IF r.ok THEN parse_pid(Trim(r.val)) ELSE NoPid

\* get_state(): read supervise/stat ("unknown" when it cannot be read), trim,
\* match.
get_state_untrimmed(f, svc) ==
    LET r == read_to_string(Node(f, svc.path).stat)
        s == IF r.ok THEN r.val ELSE S_unknown
    IN  IF s = S_run THEN "Run"
        ELSE IF s = S_down THEN "Down"
        ELSE IF s = S_finish THEN "Finish"
        ELSE "Unknown"

get_state(f, svc) ==
    LET r == read_to_string(Node(f, svc.path).stat)
        s == Trim(IF r.ok THEN r.val ELSE S_unknown)
    IN  IF s = S_run THEN "Run"
        ELSE IF s = S_down THEN "Down"
        ELSE IF s = S_finish THEN "Finish"
        ELSE "Unknown"

\* get_start_time(): the modification time of supervise/stat, here as the
\* seconds elapsed since.
get_start_time(f, svc) ==
    LET d == Node(f, svc.path)
    IN  IF d.stat.exists THEN [ok |-> TRUE, val |-> d.age] ELSE [ok |-> FALSE, val |-> 0]

----------------------------------------------------------------------------
(* get_services                                                            *)

\* Vec::sort(): a stable sort by Ord; Insert puts x behind the elements that
\* are not greater.
RECURSIVE Insert(_, _)
Insert(sorted, x) ==
    IF sorted = <<>> THEN <<x>>
    ELSE IF ServiceLess(x, Head(sorted)) THEN <<x>> \o sorted
    ELSE <<Head(sorted)>> \o Insert(Tail(sorted), x)

RECURSIVE SortFrom(_, _)
SortFrom(v, acc) ==
    IF v = <<>> THEN acc ELSE SortFrom(Tail(v), Insert(acc, Head(v)))

sort_unsorted(v) == v

sort(v) == SortFrom(v, <<>>)

RECURSIVE read_dir_loop_log_at_root(_, _, _, _, _)
read_dir_loop_log_at_root(f, entries, log, filter, dirs) ==
    IF entries = <<>> THEN Ok(dirs)
    ELSE LET name == Head(entries)
             rest == Tail(entries)
         IN  IF f[name].dir.kind # "dir"
             THEN read_dir_loop_log_at_root(f, rest, log, filter, dirs)
             ELSE IF ~ ValidUtf8(name) THEN Err
             ELSE IF filter.ok /\ ~ Contains(name, filter.val)
             THEN read_dir_loop_log_at_root(f, rest, log, filter, dirs)
             ELSE read_dir_loop_log_at_root(f, rest, log, filter,
                     dirs \o <<RunitService_new(name, <<name>>)>>
                          \o (IF log THEN <<RunitService_new(S_dash_log, <<S_log>>)>>
                              ELSE <<>>))

\* The loop over fs::read_dir(path): entries in the order the filesystem
\* returns them, dirs the vector built so far. filter is an Option<str>.
RECURSIVE read_dir_loop(_, _, _, _, _)
read_dir_loop(f, entries, log, filter, dirs) ==
    IF entries = <<>> THEN Ok(dirs)
    ELSE LET name == Head(entries)
             rest == Tail(entries)
             p    == <<name>>
         IN  IF f[name].dir.kind # "dir"
             THEN read_dir_loop(f, rest, log, filter, dirs)
             ELSE IF ~ ValidUtf8(name) THEN Err
             ELSE IF filter.ok /\ ~ Contains(name, filter.val)
             THEN read_dir_loop(f, rest, log, filter, dirs)
             ELSE read_dir_loop(f, rest, log, filter,
                     dirs \o <<RunitService_new(name, p)>>
                          \o (IF log
                              THEN <<RunitService_new(S_dash_log, p \o <<S_log>>)>>
                              ELSE <<>>))

get_services_swallow(f, root_ok, entries, log, filter) ==
    LET r == read_dir_loop(f, entries, log, filter, <<>>)
    IN  IF root_ok /\ r.ok THEN Ok(sort(r.val)) ELSE Ok(<<>>)

\* get_services(path, log, filter): root_ok says whether path can be listed.
get_services(f, root_ok, entries, log, filter) ==
    IF ~ root_ok THEN Err
    ELSE LET r == read_dir_loop(f, entries, log, filter, <<>>)
         IN  IF r.ok THEN Ok(sort(r.val)) ELSE Err

\* The orders in which read_dir may return the entries of the root.
DirEntries(f) == { n \in DOMAIN f : f[n].dir.kind # "none" }

Orders(S) ==
    { o \in [1..Cardinality(S) -> S] : \A i, j \in 1..Cardinality(S) : i # j => o[i] # o[j] }

----------------------------------------------------------------------------
(* utils                                                                   *)

\* Where the characters of s start: a str is valid UTF-8, so a character
\* starts at every byte that is not a continuation byte.
CharStarts(s) == { i \in 1..Len(s) : ~ IsCont(s[i]) }

\* s.chars().count()
CharCount(s) == Cardinality(CharStarts(s))

\* s.chars().take(n).collect::<String>()
\* (character n + 1 starts behind n characters, each of 1 to 4 bytes)
TakeChars(s, n) ==
    IF CharCount(s) <= n THEN s
    ELSE SubSeq(s, 1, (CHOOSE i \in (n + 1)..Min(Len(s), 4 * n + 1) :
                          /\ ~ IsCont(s[i])
                          /\ Cardinality(CharStarts(SubSeq(s, 1, i - 1))) = n) - 1)

trim_long_string_no_room(s, limit, suffix) ==
    IF Len(s) < limit THEN s
    ELSE TakeChars(s, limit) \o suffix

trim_long_string_le(s, limit, suffix) ==
    IF Len(s) <= limit THEN s
    ELSE TakeChars(s, limit - Len(suffix)) \o suffix

\* trim_long_string(s, limit, suffix); callers keep limit > suffix.len().
trim_long_string(s, limit, suffix) ==
    IF Len(s) < limit THEN s
    ELSE TakeChars(s, limit - Len(suffix)) \o suffix

Spaces(n) == [i \in 1..n |-> 32]

Column_unpadded(text, max) == <<32>> \o text

\* format!(" {0:1$}", text, max): a space, the text, and spaces up to max
\* characters.
Column(text, max) ==
    <<32>> \o text \o (IF CharCount(text) < max THEN Spaces(max - CharCount(text)) ELSE <<>>)

\* The columns of a status line: ( width, suffix ), in order.
StatusColumns ==
    << <<1, <<>> >>, <<20, <<46, 46, 46>> >>, <<7, <<46, 46, 46>> >>,
       <<9, <<46, 46, 46>> >>, <<8, <<46, 46, 46>> >>, <<17, <<46, 46, 46>> >>,
       <<99, <<46, 46, 46>> >> >>

RECURSIVE format_columns(_, _)
format_columns(texts, i) ==
    IF i > Len(texts) THEN <<>>
    ELSE Column(trim_long_string(texts[i], StatusColumns[i][1], StatusColumns[i][2]),
                StatusColumns[i][1])
         \o format_columns(texts, i + 1)

\* format_status_line: texts are the 7 column texts.
format_status_line(texts) == format_columns(texts, 1)

\* Integer to decimal text (to_string of an integer).
RECURSIVE NatDigits(_)
NatDigits(n) ==
    IF n < 10 THEN <<48 + n>> ELSE NatDigits(n \div 10) \o <<48 + (n % 10)>>

IntToString(n) == IF n < 0 THEN <<45>> \o NatDigits(0 - n) ELSE NatDigits(n)

DurationUnits_labels_swapped(secs) ==
    LET mins  == secs \div 60
        hours == mins \div 60
        days  == hours \div 24
    IN  << <<days \div 365, <<121, 101, 97, 114>> >>,
           <<days \div 30, <<100, 97, 121>> >>,
           <<days \div 7, <<119, 101, 101, 107>> >>,
           <<days, <<109, 111, 110, 116, 104>> >>,
           <<hours, <<104, 111, 117, 114>> >>,
           <<mins, <<109, 105, 110, 117, 116, 101>> >>,
           <<secs, <<115, 101, 99, 111, 110, 100>> >> >>

DurationUnits(secs) ==
    LET mins  == secs \div 60
        hours == mins \div 60
        days  == hours \div 24
    IN  << <<days \div 365, <<121, 101, 97, 114>> >>,          \* "year"
           <<days \div 30, <<109, 111, 110, 116, 104>> >>,     \* "month"
           <<days \div 7, <<119, 101, 101, 107>> >>,           \* "week"
           <<days, <<100, 97, 121>> >>,                        \* "day"
           <<hours, <<104, 111, 117, 114>> >>,                 \* "hour"
           <<mins, <<109, 105, 110, 117, 116, 101>> >>,        \* "minute"
           <<secs, <<115, 101, 99, 111, 110, 100>> >> >>       \* "second"

RECURSIVE duration_loop_always_plural(_, _, _)
duration_loop_always_plural(v, i, plural) ==
    IF i > Len(v) THEN <<48, 32, 115, 101, 99, 111, 110, 100, 115>>
    ELSE IF v[i][1] > 0 THEN NatDigits(v[i][1]) \o <<32>> \o v[i][2] \o <<115>>
    ELSE duration_loop_always_plural(v, i + 1, plural)

RECURSIVE duration_loop(_, _, _)
duration_loop(v, i, plural) ==
    IF i > Len(v) THEN <<48, 32, 115, 101, 99, 111, 110, 100, 115>>   \* "0 seconds"
    ELSE LET num == v[i][1]
             pl  == IF num > 1 THEN <<115>> ELSE plural
         IN  IF num > 0 THEN NatDigits(num) \o <<32>> \o v[i][2] \o pl
             ELSE duration_loop(v, i + 1, pl)

\* relative_duration(t), t in whole seconds.
relative_duration(secs) == duration_loop(DurationUnits(secs), 1, <<>>)

\* cmd_from_pid(pid, proc_path): the first NUL-separated piece of
\* PROC_DIR/<pid>/cmdline.
RECURSIVE UpToNul(_)
UpToNul(s) ==
    IF s = <<>> \/ Head(s) = 0 THEN <<>> ELSE <<Head(s)>> \o UpToNul(Tail(s))

ProcEntry(pr, pid) ==
    IF pid \in DOMAIN pr THEN pr[pid] ELSE [cmdline |-> NoFile, pstree |-> Err]

cmd_from_pid_empty(pr, pid) ==
    LET r == read_to_string(ProcEntry(pr, pid).cmdline)
    IN  IF r.ok THEN Ok(UpToNul(r.val)) ELSE Ok(<<>>)

cmd_from_pid(pr, pid) ==
    LET r == read_to_string(ProcEntry(pr, pid).cmdline)
    IN  IF r.ok THEN Ok(UpToNul(r.val)) ELSE Err

\* run_program_get_output(pstree_prog, ["-ac", pid]): what the program
\* prints, or an error when it cannot be run or exits non-zero.
get_pstree(pr, pid) == ProcEntry(pr, pid).pstree

----------------------------------------------------------------------------
(* Service: the view of one RunitService.                                  *)
(*   [name, state, enabled, command, pid, start_time, pstree]              *)

NoTree == [ok |-> FALSE, val |-> Err]

from_runit_service_propagates(f, pr, service, want_pstree) ==
    [ok |-> get_pid(f, service).ok,
     svc |-> [name |-> service.name, state |-> get_state(f, service),
              enabled |-> enabled(f, service), command |-> None,
              pid |-> get_pid(f, service),
              start_time |-> get_start_time(f, service), pstree |-> NoTree],
     messages |-> <<>>]

\* Service::from_runit_service: ( the Service, the messages ). It returns no
\* Result: ok says that a view was built, and is TRUE.
from_runit_service(f, pr, service, want_pstree) ==
    LET name       == service.name
        en         == enabled(f, service)
        pid        == get_pid(f, service)
        state      == get_state(f, service)
        start_time == get_start_time(f, service)
        cmd        == IF pid.ok THEN cmd_from_pid(pr, pid.val) ELSE Err
        command    == IF pid.ok /\ cmd.ok THEN Some(cmd.val) ELSE None
        m_cmd      == IF pid.ok /\ ~ cmd.ok
                      THEN << [kind |-> "failed to get command for pid",
                               path |-> service.path, pid |-> pid.val] >>
                      ELSE <<>>
        m_pid      == IF ~ pid.ok
                      THEN << [kind |-> "failed to get pid",
                               path |-> service.path, pid |-> 0] >>
                      ELSE <<>>
        pstree     == IF want_pstree /\ pid.ok
                      THEN [ok |-> TRUE, val |-> get_pstree(pr, pid.val)]
                      ELSE NoTree
    IN  [ok |-> TRUE,
         svc |-> [name |-> name, state |-> state, enabled |-> en,
                  command |-> command, pid |-> pid,
                  start_time |-> start_time, pstree |-> pstree],
         messages |-> m_cmd \o m_pid]

\* ServiceState::get_char
get_char(state) ==
    IF state = "Run" THEN S_check
    ELSE IF state = "Unknown" THEN S_qmark
    ELSE S_X

\* Display for ServiceState
state_to_string(state) ==
    IF state = "Run" THEN S_run
    ELSE IF state = "Down" THEN S_down
    ELSE IF state = "Finish" THEN S_finish
    ELSE S_na

format_name(svc) == svc.name

format_status_char(svc) == get_char(svc.state)

format_state(svc) == state_to_string(svc.state)

format_enabled(svc) == IF svc.enabled THEN S_true ELSE S_false

format_pid(svc) == IF svc.pid.ok THEN IntToString(svc.pid.val) ELSE S_dashes

format_command(svc) == IF svc.command.ok THEN svc.command.val ELSE S_dashes

\* The text of the io::Error of a file that does not exist.
S_enoent ==
    <<78, 111, 32, 115, 117, 99, 104, 32, 102, 105, 108, 101, 32, 111, 114,
      32, 100, 105, 114, 101, 99, 116, 111, 114, 121, 32, 40, 111, 115, 32,
      101, 114, 114, 111, 114, 32, 50, 41>>  \* "No such file or directory (os error 2)"

format_time(svc) ==
    IF svc.start_time.ok THEN relative_duration(svc.start_time.val) ELSE S_enoent

\* Display for Service
fmt(svc) ==
    format_status_line(<<format_status_char(svc), format_name(svc),
                         format_state(svc), format_enabled(svc),
                         format_pid(svc), format_command(svc),
                         format_time(svc)>>)

\* The header line of the listing.
Header ==
    format_status_line(<< <<>>, <<83, 69, 82, 86, 73, 67, 69>>, <<83, 84, 65, 84, 69>>,
                          <<69, 78, 65, 66, 76, 69, 68>>, <<80, 73, 68>>,
                          <<67, 79, 77, 77, 65, 78, 68>>, <<84, 73, 77, 69>> >>)

\* The fields of a status line, as tests/integration.rs reads them: the
\* leading space is skipped, then a field of each width in characters and
\* the space behind it; what is left is the last field.
RECURSIVE parse_fields(_, _)
parse_fields(line, i) ==
    IF i > 6 THEN <<line>>
    ELSE LET field == TakeChars(line, StatusColumns[i][1])
         IN  <<field>> \o parse_fields(SubSeq(line, Len(field) + 2, Len(line)), i + 1)

parse_status_line(line) == parse_fields(Tail(line), 1)

\* The field as the test compares it: trailing white space removed.
Field(line, i) == TrimEnd(parse_status_line(line)[i])

----------------------------------------------------------------------------
(* config                                                                  *)
(*   args: [command, log, tree, sub_log, sub_tree, verbose, operands, dir] *)
(*   command is "none" (plain vsv), "status", "enable" or "disable"; dir   *)
(*   is the service directory asked for: "SVDIR", which exists, or         *)
(*   "missing", which does not.                                            *)

from_args_status_disables(a) ==
    [mode     |-> IF a.command = "enable" THEN "Enable" ELSE "Disable",
     operands |-> IF a.command = "none" THEN <<>> ELSE a.operands,
     log      |-> a.log \/ (a.command = "status" /\ a.sub_log),
     tree     |-> a.tree \/ (a.command = "status" /\ a.sub_tree),
     verbose  |-> a.verbose,
     svdir    |-> a.dir]

\* Config::from_args
from_args(a) ==
    [mode     |-> IF a.command \in {"none", "status"} THEN "Status"
                  ELSE IF a.command = "enable" THEN "Enable"
                  ELSE IF a.command = "disable" THEN "Disable"
                  ELSE "External",
     operands |-> IF a.command = "none" THEN <<>> ELSE a.operands,
     log      |-> a.log \/ (a.command = "status" /\ a.sub_log),
     tree     |-> a.tree \/ (a.command = "status" /\ a.sub_tree),
     verbose  |-> a.verbose,
     svdir    |-> a.dir]

NoArgs == [command |-> "none", log |-> FALSE, tree |-> FALSE, sub_log |-> FALSE,
           sub_tree |-> FALSE, verbose |-> 0, operands |-> <<>>, dir |-> "SVDIR"]

NoConfig == from_args(NoArgs)

\* What is below c.svdir: the filesystem, or nothing when the directory
\* does not exist.
Below(f, c) ==
    IF c.svdir = "SVDIR" THEN f ELSE [n \in DOMAIN f |-> [dir |-> NoDir, log |-> NoDir]]

----------------------------------------------------------------------------
(* commands::enable_disable                                                *)

Event(kind, text, idx) == [kind |-> kind, text |-> text, idx |-> idx]

RECURSIVE enable_disable_loop_abort(_, _, _)
enable_disable_loop_abort(c, i, st) ==
    IF i > Len(c.operands) \/ st.had_error THEN st
    ELSE LET name == c.operands[i]
             svc  == RunitService_new(name, <<name>>)
             ret  == IF c.mode = "Enable" THEN enable(st.fs, svc) ELSE disable(st.fs, svc)
         IN  IF ~ valid(Below(st.fs, c), svc)
             THEN [st EXCEPT !.had_error = TRUE,
                             !.out = @ \o <<Event("failed! service not valid", name, i)>>]
             ELSE IF ret.ok
             THEN enable_disable_loop_abort(c, i + 1,
                     [st EXCEPT !.fs = ret.fs, !.out = @ \o <<Event("done.", name, i)>>])
             ELSE [st EXCEPT !.had_error = TRUE,
                             !.out = @ \o <<Event("failed!", name, i)>>]

\* The loop of _do_enable_disable over cfg.operands from position i:
\* st = [fs, had_error, out].
RECURSIVE enable_disable_loop(_, _, _)
enable_disable_loop(c, i, st) ==
    IF i > Len(c.operands) THEN st
    ELSE LET name == c.operands[i]
             svc  == RunitService_new(name, <<name>>)
         IN  IF ~ valid(Below(st.fs, c), svc)
             THEN enable_disable_loop(c, i + 1,
                     [st EXCEPT !.had_error = TRUE,
                                !.out = @ \o <<Event("failed! service not valid", name, i)>>])
             ELSE LET ret == IF c.mode = "Enable" THEN enable(st.fs, svc)
                             ELSE disable(st.fs, svc)
                  IN  IF ret.ok
                      THEN enable_disable_loop(c, i + 1,
                              [st EXCEPT !.fs = ret.fs,
                                         !.out = @ \o <<Event("done.", name, i)>>])
                      ELSE enable_disable_loop(c, i + 1,
                              [st EXCEPT !.had_error = TRUE,
                                         !.out = @ \o <<Event("failed!", name, i)>>])

\* _do_enable_disable(cfg): [ok, fs, out].
do_enable_disable(f, c) ==
    IF c.operands = <<>> THEN [ok |-> FALSE, fs |-> f, out |-> <<>>]
    ELSE LET st == enable_disable_loop(c, 1, [fs |-> f, had_error |-> FALSE, out |-> <<>>])
         IN  [ok |-> ~ st.had_error, fs |-> st.fs, out |-> st.out]

----------------------------------------------------------------------------
(* The invocations.                                                        *)

EmptySlot == [done |-> FALSE, ok |-> FALSE, svc |-> <<>>, messages |-> <<>>]

\* Service::format_pstree
S_pstree_failed == <<112, 115, 116, 114, 101, 101, 32, 99, 97, 108, 108, 32, 102, 97, 105, 108, 101, 100>>

format_pstree(svc) ==
    IF ~ svc.pstree.ok THEN <<>>
    ELSE IF svc.pstree.val.ok THEN <<10>> \o Trim(svc.pstree.val.val) \o <<10>>
    ELSE <<10>> \o S_pstree_failed \o <<10>>

\* vsv status, first step: the services are listed. The filter is the first
\* operand, read_dir returns the entries in any order.
StatusStart(a) ==
    LET c      == from_args(a)
        filter == IF c.operands # <<>> THEN Some(c.operands[1]) ELSE None
    IN  /\ pc = "idle"
        /\ c.mode = "Status"
        /\ \E order \in Orders(DirEntries(fs)) :
              LET r == get_services(fs, c.svdir = "SVDIR", order, c.log, filter)
              IN  /\ services' = r
                  /\ IF r.ok
                     THEN /\ pc' = "map"
                          /\ slots' = [i \in 1..Len(r.val) |-> EmptySlot]
                          /\ stdout' = <<>>
                          /\ status' = "-"
                     ELSE /\ pc' = "done"
                          /\ slots' = <<>>
                          /\ stdout' = <<Event("failed to list services", <<>>, 0)>>
                          /\ status' = "1"
        /\ args' = a
        /\ cfg' = c
        /\ fs0' = fs
        /\ UNCHANGED <<fs, proc, history>>

\* vsv status, the parallel map: a worker maps service i to its view. The
\* workers finish in any order, each result goes to the slot of its index.
slot_of_first_free(sl, i) ==
    IF \E j \in 1..Len(sl) : ~ sl[j].done
    THEN CHOOSE j \in 1..Len(sl) : ~ sl[j].done /\ \A k \in 1..(j - 1) : sl[k].done
    ELSE i

slot_of(sl, i) == i

MapService(i) ==
    /\ pc = "map"
    /\ i \in 1..Len(slots)
    /\ ~ slots[slot_of(slots, i)].done
    /\ LET r == from_runit_service(fs, proc, services.val[i], cfg.tree)
       IN  slots' = [slots EXCEPT ![slot_of(slots, i)] =
                        [done |-> TRUE, ok |-> r.ok, svc |-> r.svc, messages |-> r.messages]]
    /\ UNCHANGED <<fs, proc, args, cfg, pc, services, stdout, status, fs0, history>>

\* What is written for the view in slot i: its line, its tree when trees
\* are asked for, its messages when verbose. A service that could not be
\* processed gets no line.
RECURSIVE MessageEvents(_, _, _)
MessageEvents(ms, i, k) ==
    IF k > Len(ms) THEN <<>>
    ELSE <<Event(ms[k].kind, <<>>, i)>> \o MessageEvents(ms, i, k + 1)

RowEvents_messages_first(c, sl, i) ==
    IF ~ sl[i].ok THEN <<Event("failed to process service", <<>>, i)>>
    ELSE
    (IF c.verbose > 0 THEN MessageEvents(sl[i].messages, i, 1) ELSE <<>>)
    \o <<Event("row", fmt(sl[i].svc), i)>>
    \o (IF c.tree THEN <<Event("tree", format_pstree(sl[i].svc), i)>> ELSE <<>>)

RowEvents(c, sl, i) ==
    IF ~ sl[i].ok THEN <<Event("failed to process service", <<>>, i)>>
    ELSE
    <<Event("row", fmt(sl[i].svc), i)>>
    \o (IF c.tree THEN <<Event("tree", format_pstree(sl[i].svc), i)>> ELSE <<>>)
    \o (IF c.verbose > 0 THEN MessageEvents(sl[i].messages, i, 1) ELSE <<>>)

RECURSIVE RenderFrom(_, _, _)
RenderFrom(c, sl, i) ==
    IF i > Len(sl) THEN <<>> ELSE RowEvents(c, sl, i) \o RenderFrom(c, sl, i + 1)

\* vsv status, last step: every view is there; the listing is written.
Render ==
    /\ pc = "map"
    /\ \A i \in 1..Len(slots) : slots[i].done
    /\ stdout' = <<Event("blank", <<>>, 0)>>
                 \o (IF cfg.verbose > 0 THEN <<Event("found services", <<>>, Len(slots))>>
                     ELSE <<>>)
                 \o <<Event("header", Header, 0)>>
                 \o RenderFrom(cfg, slots, 1)
                 \o <<Event("blank", <<>>, 0)>>
    /\ status' = "0"
    /\ pc' = "done"
    /\ UNCHANGED <<fs, proc, args, cfg, services, slots, fs0, history>>

\* vsv enable / vsv disable: what the invocation does.
Toggle(a) ==
    LET c == from_args(a)
        r == do_enable_disable(fs, c)
    IN  /\ pc = "idle"
        /\ c.mode \in {"Enable", "Disable"}
        /\ fs' = r.fs
        /\ stdout' = r.out
        /\ status' = IF r.ok THEN "0" ELSE "1"
        /\ pc' = "done"
        /\ args' = a
        /\ cfg' = c
        /\ fs0' = fs
        /\ services' = Ok(<<>>)
        /\ slots' = <<>>
        /\ UNCHANGED proc

\* vsv enable / vsv disable.
EnableDisable(a) == Toggle(a) /\ UNCHANGED history

\* The process is gone; the next invocation starts afresh.
Exit ==
    /\ pc = "done"
    /\ pc' = "idle"
    /\ args' = NoArgs
    /\ cfg' = NoConfig
    /\ services' = Ok(<<>>)
    /\ slots' = <<>>
    /\ stdout' = <<>>
    /\ status' = "-"
    /\ fs0' = fs
    /\ UNCHANGED <<fs, proc, history>>

----------------------------------------------------------------------------
(* The initial filesystems.                                                *)

NameIndex(n) == CHOOSE i \in 1..Len(NamePool) : NamePool[i] = n

\* The pid of the service called n and of its logger: 123, 223, ... and
\* 150, 250, ...
PidOf(n)    == 100 * NameIndex(n) + 23
LogPidOf(n) == 100 * NameIndex(n) + 50

S_nl        == <<10>>
S_uh_oh     == <<117, 104, 32, 111, 104, 32, 116, 104, 105, 115, 32, 111, 110, 101, 32, 119, 111, 110, 39, 116, 32, 112, 97, 114, 115, 101>>
S_12x       == <<49, 50, 120>>
S_something == <<115, 111, 109, 101, 116, 104, 105, 110, 103, 45, 98, 97, 100>>
S_cmd       == <<45, 99, 109, 100>>
S_logcmd    == <<45, 108, 111, 103>>
S_tree      == <<114, 117, 110, 115, 118, 45, 45, 45, 115, 104>>

\* A directory as tests/integration.rs creates it: supervise/stat, and
\* supervise/pid when a pid is given.
ServiceDir(state, pidfile) ==
    [kind |-> "dir", supervise |-> TRUE, down |-> FALSE, writable |-> TRUE,
     pid |-> pidfile, stat |-> File(state \o S_nl), age |-> 180]

BareDir == [NoDir EXCEPT !.kind = "dir", !.writable = TRUE]

PidFile(p) == File(IntToString(p) \o S_nl)

\* The states a service directory may be in when the status is listed.
Scenarios ==
    {"absent", "run", "nopid", "badpid", "noproc", "down", "bare", "badstat"}

ScenarioEntry(n, sc) ==
    IF sc = "run"
        THEN [dir |-> ServiceDir(S_run, PidFile(PidOf(n))),
              log |-> ServiceDir(S_run, PidFile(LogPidOf(n)))]
    ELSE IF sc = "nopid"
        THEN [dir |-> ServiceDir(S_run, NoFile), log |-> NoDir]
    ELSE IF sc = "badpid"
        THEN [dir |-> ServiceDir(S_run, File(S_uh_oh \o S_nl)),
              log |-> ServiceDir(<<255>>, NoFile)]   \* stat is not UTF-8
    ELSE IF sc = "noproc"
        THEN [dir |-> ServiceDir(S_finish, PidFile(PidOf(n))),
              log |-> ServiceDir(S_run, File(S_12x \o S_nl))]
    ELSE IF sc = "down"
        THEN [dir |-> [ServiceDir(S_down, NoFile) EXCEPT !.down = TRUE],
              log |-> ServiceDir(S_run, PidFile(LogPidOf(n)))]
    ELSE IF sc = "bare"
        THEN [dir |-> BareDir, log |-> NoDir]
    ELSE IF sc = "badstat"
        THEN [dir |-> ServiceDir(S_something, PidFile(PidOf(n))), log |-> BareDir]
    ELSE [dir |-> NoDir, log |-> NoDir]

\* The process table that goes with it: the process of a "run" service and
\* of its logger are alive; the process of a "badstat" service is alive
\* and pstree fails on it; no other pid names a process.
Live(cmd, tree) == [cmdline |-> File(cmd \o <<0>>), pstree |-> tree]
Dead            == [cmdline |-> NoFile, pstree |-> Err]

ScenarioProc(choice) ==
    [p \in { PidOf(n) : n \in Names } \cup { LogPidOf(n) : n \in Names } |->
        IF \E n \in Names : p = PidOf(n) /\ choice[n] = "run"
            THEN Live((CHOOSE n \in Names : p = PidOf(n)) \o S_cmd, Ok(S_tree \o S_nl))
        ELSE IF \E n \in Names : p = PidOf(n) /\ choice[n] = "badstat"
            THEN Live((CHOOSE n \in Names : p = PidOf(n)) \o S_cmd, Err)
        ELSE IF \E n \in Names : p = LogPidOf(n) /\ choice[n] \in {"run", "down"}
            THEN Live((CHOOSE n \in Names : p = LogPidOf(n)) \o S_logcmd, Ok(S_tree \o S_nl))
        ELSE Dead]

Idle ==
    /\ pc = "idle"
    /\ args = NoArgs
    /\ cfg = NoConfig
    /\ services = Ok(<<>>)
    /\ slots = <<>>
    /\ stdout = <<>>
    /\ status = "-"
    /\ fs0 = fs

\* Nothing is recorded.
NoHistory == <<>>

\* Listing the status: the first MaxListed names are each in one of the
\* scenarios, the other names do not exist.
Init ==
    /\ \E choice \in [Names -> Scenarios] :
          /\ \A n \in Names \ StatusNames : choice[n] = "absent"
          /\ fs = [n \in Names |-> ScenarioEntry(n, choice[n])]
          /\ proc = ScenarioProc(choice)
    /\ Idle
    /\ history = NoHistory

\* Discovery: every name is absent or a service directory, and the second
\* name may also be a plain file; the first name's directory has a log
\* directory in it, the others have not.
InitDiscover ==
    /\ \E kind \in [Names -> {"none", "file", "dir"}] :
          /\ \A n \in Names : kind[n] = "file" => n = NamePool[2]
          /\ fs = [n \in Names |->
                     IF kind[n] = "dir"
                     THEN ScenarioEntry(n, IF n = NamePool[1] THEN "badpid" ELSE "nopid")
                     ELSE IF kind[n] = "file" THEN [dir |-> PlainFile, log |-> NoDir]
                     ELSE [dir |-> NoDir, log |-> NoDir]]
    /\ proc = ScenarioProc([n \in Names |-> "absent"])
    /\ Idle
    /\ history = NoHistory

\* Enabling and disabling: each of the first MaxTargets names is absent, a
\* plain file, or a directory with or without supervise, with or without
\* down, writable or not.
TargetDirs ==
    { [BareDir EXCEPT !.supervise = s, !.down = d, !.writable = w,
                      !.stat = IF s THEN File(S_run \o S_nl) ELSE NoFile] :
        s \in BOOLEAN, d \in BOOLEAN, w \in BOOLEAN }

InitMutate ==
    /\ \E dirs \in [TargetNames -> {NoDir, PlainFile} \cup TargetDirs] :
          fs = [n \in Names |->
                  [dir |-> IF n \in TargetNames THEN dirs[n] ELSE NoDir, log |-> NoDir]]
    /\ proc = ScenarioProc([n \in Names |-> "absent"])
    /\ Idle
    /\ history = NoHistory

----------------------------------------------------------------------------
(* The command lines.                                                      *)

StatusArgs(logs, trees, verboses, filters, dirs) ==
    { [command |-> "status", log |-> FALSE, tree |-> FALSE, sub_log |-> l,
       sub_tree |-> t, verbose |-> v, operands |-> f, dir |-> d] :
        l \in logs, t \in trees, v \in verboses, f \in filters, d \in dirs }

\* The operand lists of at most MaxOperands names of S.
OperandLists(S) ==
    UNION { [1..k -> S] : k \in 0..MaxOperands }

ToggleArgs(S) ==
    { [NoArgs EXCEPT !.command = c, !.operands = o] :
        c \in {"enable", "disable"}, o \in OperandLists(S) }

\* vsv status [-l] [-t] with or without -v.
Next ==
    \/ \E a \in StatusArgs(BOOLEAN, BOOLEAN, {0, 1}, {<<>>}, {"SVDIR"}) : StatusStart(a)
    \/ \E i \in 1..Len(slots) : MapService(i)
    \/ Render
    \/ Exit

Spec == Init /\ [][Next]_vars

\* vsv [-l], vsv status [-l] [filter], the service directory there or not,
\* and vsv enable / disable of the first names.
DiscoverArgs ==
    StatusArgs(BOOLEAN, {FALSE}, {0}, {<<>>, << <<97>> >>, << <<98>> >>},
               {"SVDIR", "missing"})
    \cup { [NoArgs EXCEPT !.log = l] : l \in BOOLEAN }
    \cup ToggleArgs(StatusNames)

NextDiscover ==
    \/ \E a \in DiscoverArgs : StatusStart(a)
    \/ \E i \in 1..Len(slots) : MapService(i)
    \/ Render
    \/ \E a \in DiscoverArgs : EnableDisable(a)
    \/ Exit

SpecDiscover == InitDiscover /\ [][NextDiscover]_vars

\* vsv enable / disable with every operand list.
NextMutate ==
    \/ \E a \in ToggleArgs(TargetNames) : EnableDisable(a)
    \/ Exit

SpecMutate == InitMutate /\ [][NextMutate]_vars

\* Sequences of invocations, with a record of what they did:
\*   first  the filesystem before the first invocation
\*   named  the names that were operands of an invocation
\*   last   for each name the mode of the last invocation that reported it
\*          done ("done." is written when the service is valid and the
\*          toggle returned Ok), "none" when there is none
Started(f) ==
    [first |-> f, named |-> [n \in Names |-> FALSE], last |-> [n \in Names |-> "none"]]

Record(h, f, c) ==
    LET out == do_enable_disable(f, c).out
    IN  [first |-> h.first,
         named |-> [n \in Names |->
                      h.named[n] \/ \E i \in 1..Len(c.operands) : c.operands[i] = n],
         last  |-> [n \in Names |->
                      IF \E i \in 1..Len(out) : out[i].text = n /\ out[i].kind = "done."
                      THEN c.mode ELSE h.last[n]]]

\* Before the first invocation each of the first MaxTargets names is absent,
\* a plain file, a service with or without down, writable or not, or a
\* writable directory without supervise, with or without down.
InitSequence ==
    /\ \E dirs \in [TargetNames -> {NoDir, PlainFile}
                                    \cup { d \in TargetDirs : d.supervise \/ d.writable }] :
          fs = [n \in Names |->
                  [dir |-> IF n \in TargetNames THEN dirs[n] ELSE NoDir, log |-> NoDir]]
    /\ proc = ScenarioProc([n \in Names |-> "absent"])
    /\ Idle
    /\ history = Started(fs)

\* vsv enable / vsv disable, recorded.
EnableDisableRecorded(a) ==
    /\ Toggle(a)
    /\ history' = Record(history, fs, from_args(a))

NextSequence ==
    \/ \E a \in ToggleArgs(TargetNames) : EnableDisableRecorded(a)
    \/ Exit

SpecSequence == InitSequence /\ [][NextSequence]_vars

----------------------------------------------------------------------------
(* commands::external                                                      *)

\* What becomes of the sv program: it cannot be started, or it runs and
\* exits with a code, or it runs and is ended by a signal (no code).
Outcomes ==
    { [started |-> FALSE, code |-> NoPid],
      [started |-> TRUE, code |-> [ok |-> TRUE, val |-> 0]],
      [started |-> TRUE, code |-> [ok |-> TRUE, val |-> 1]],
      [started |-> TRUE, code |-> NoPid] }

do_external_signal_ok(c, outcome) ==
    IF Len(c.operands) < 2 THEN [ok |-> FALSE, out |-> <<>>]
    ELSE LET before == <<Event("set_var SVDIR", c.svdir, 0),
                         Event("Running", c.operands, 0),
                         Event("run", c.operands, 0)>>
             code   == IF outcome.code.ok THEN outcome.code.val ELSE 0
         IN  IF outcome.started
             THEN [ok  |-> code = 0,
                   out |-> before \o <<Event("ended", outcome.code, 0),
                                       Event("exit code", code, 0)>>]
             ELSE [ok |-> FALSE, out |-> before \o <<Event("not started", <<>>, 0)>>]

\* do_external(cfg): [ok, out]. The operands are the sub-command and its
\* arguments; clap gives at least the sub-command. The events are, in
\* order: SVDIR set, the line that announces the command, the program run
\* with the operands, what became of it, the line with the exit code.
do_external(c, outcome) ==
    IF Len(c.operands) < 2 THEN [ok |-> FALSE, out |-> <<>>]
    ELSE LET before == <<Event("set_var SVDIR", c.svdir, 0),
                         Event("Running", c.operands, 0),
                         Event("run", c.operands, 0)>>
             code   == IF outcome.code.ok THEN outcome.code.val ELSE -1
         IN  IF outcome.started
             THEN [ok  |-> code = 0,
                   out |-> before \o <<Event("ended", outcome.code, 0),
                                       Event("exit code", code, 0)>>]
             ELSE [ok |-> FALSE, out |-> before \o <<Event("not started", <<>>, 0)>>]

\* vsv <anything else> ...
External(a, outcome) ==
    LET c == from_args(a)
        r == do_external(c, outcome)
    IN  /\ pc = "idle"
        /\ c.mode = "External"
        /\ stdout' = r.out
        /\ status' = IF r.ok THEN "0" ELSE "1"
        /\ pc' = "done"
        /\ args' = a
        /\ cfg' = c
        /\ UNCHANGED <<fs, proc, services, slots, fs0, history>>

\* The words of a pass-through command line: "up", "a", "b".
Words == { <<117, 112>>, <<97>>, <<98>> }

\* The sub-command and up to MaxOperands arguments, for either directory.
ExternalArgs ==
    { [NoArgs EXCEPT !.command = "external", !.operands = o, !.dir = d] :
        o \in UNION { [1..k -> Words] : k \in 1..(MaxOperands + 1) },
        d \in {"SVDIR", "missing"} }

NextExternal ==
    \/ \E a \in ExternalArgs, outcome \in Outcomes : External(a, outcome)
    \/ Exit

----------------------------------------------------------------------------
(* Calls of the utilities.                                                 *)

\* The characters texts are made of: "a", "e" with an acute accent (2
\* bytes) and the check mark (3 bytes).
Glyphs == { <<97>>, <<195, 169>>, <<226, 156, 148>> }

RECURSIVE Concat(_)
Concat(ss) == IF ss = <<>> THEN <<>> ELSE Head(ss) \o Concat(Tail(ss))

\* The texts of at most n characters.
Texts(n) == UNION { { Concat(g) : g \in [1..k -> Glyphs] } : k \in 0..n }

\* "", ".", "..", "..." and the ellipsis character (3 bytes).
Suffixes == { <<>>, <<46>>, <<46, 46>>, <<46, 46, 46>>, <<226, 128, 166>> }

\* No service directory, no process.
InitText ==
    /\ fs = [n \in Names |-> [dir |-> NoDir, log |-> NoDir]]
    /\ proc = ScenarioProc([n \in Names |-> "absent"])
    /\ Idle
    /\ history = NoHistory

\* A call of trim_long_string; the call panics unless limit > suffix.len().
TrimLongString(s, limit, suffix) ==
    /\ pc = "idle"
    /\ limit > Len(suffix)
    /\ args' = [command |-> "trim_long_string", s |-> s, limit |-> limit,
                suffix |-> suffix]
    /\ stdout' = <<Event("returned", trim_long_string(s, limit, suffix), 0)>>
    /\ status' = "0"
    /\ pc' = "done"
    /\ UNCHANGED <<fs, proc, cfg, services, slots, fs0, history>>

\* n times the character g.
Repeat(g, n) == [i \in 1..(n * Len(g)) |-> g[((i - 1) % Len(g)) + 1]]

S_long_name ==   \* "some-really-long-service-name"
    <<115, 111, 109, 101, 45, 114, 101, 97, 108, 108, 121, 45, 108, 111, 110,
      103, 45, 115, 101, 114, 118, 105, 99, 101, 45, 110, 97, 109, 101>>

\* The column texts a status line is made of: names and commands around
\* the width of their column, in one-byte and in two-byte characters; pids
\* of 1 and of 9 digits; times that are short, an error text, or longer
\* than any column.
LineNames ==
    { Repeat(g, StatusColumns[2][1] + d) : g \in {<<97>>, <<195, 169>>}, d \in {-1, 0, 1} }
    \cup { <<97>>, Repeat(<<195, 169>>, 10), S_long_name }

LineStates == { <<S_check, S_run>>, <<S_X, S_down>>, <<S_X, S_finish>>, <<S_qmark, S_na>> }

LinePids == { S_dashes, <<49>>, Repeat(<<57>>, StatusColumns[5][1] + 1) }

LineCommands == { S_dashes, S_long_name \o S_cmd }

LineTimes ==
    { relative_duration(180), S_enoent, Repeat(<<120>>, StatusColumns[7][1] - 1),
      Repeat(<<120>>, StatusColumns[7][1] + 1) }

LineTexts ==
    { <<st[1], n, st[2], e, p, c, t>> :
        st \in LineStates, n \in LineNames, e \in {S_true, S_false},
        p \in LinePids, c \in LineCommands, t \in LineTimes }

\* A call of format_status_line.
FormatStatusLine(texts) ==
    /\ pc = "idle"
    /\ args' = [command |-> "format_status_line", texts |-> texts]
    /\ stdout' = <<Event("returned", format_status_line(texts), 0)>>
    /\ status' = "0"
    /\ pc' = "done"
    /\ UNCHANGED <<fs, proc, cfg, services, slots, fs0, history>>

\* The seconds of a minute, an hour, a day, a week (7 days), a month (30
\* days) and a year (365 days).
UnitSeconds == <<1, 60, 3600, 86400, 604800, 2592000, 31536000>>

\* The durations, in whole seconds: up to MaxCount of each unit, and a
\* second less and a second more.
Durations ==
    { k * UnitSeconds[u] + d : u \in 1..7, k \in 0..MaxCount, d \in {-1, 0, 1} } \cap Nat

\* A call of relative_duration.
RelativeDuration(secs) ==
    /\ pc = "idle"
    /\ args' = [command |-> "relative_duration", secs |-> secs]
    /\ stdout' = <<Event("returned", relative_duration(secs), 0)>>
    /\ status' = "0"
    /\ pc' = "done"
    /\ UNCHANGED <<fs, proc, cfg, services, slots, fs0, history>>

\* What supervise/pid may hold: nothing, "0", "-5", "+7", "42", "007",
\* "12x", "4 2", the largest i32 and the number above it, the smallest i32
\* and the number below it, a byte that is not UTF-8; each as it is, with a
\* newline behind it, and with a space before and a newline behind it. Or
\* the file is missing.
PidTexts ==
    { <<>>, <<48>>, <<45, 53>>, <<43, 55>>, <<52, 50>>, <<48, 48, 55>>, S_12x,
      <<52, 32, 50>>, I32MaxDigits, I32MinDigits, <<45>> \o I32MinDigits,
      <<45, 50, 49, 52, 55, 52, 56, 51, 54, 52, 57>>, <<255>> }

PidFiles ==
    { NoFile } \cup { File(t) : t \in PidTexts }
    \cup { File(t \o S_nl) : t \in PidTexts }
    \cup { File(<<32>> \o t \o S_nl) : t \in PidTexts }

\* A call of get_pid on a service whose supervise/pid is the file.
GetPid(file) ==
    /\ pc = "idle"
    /\ args' = [command |-> "get_pid", file |-> file]
    /\ stdout' = <<Event("returned",
                         get_pid([fs EXCEPT ![NamePool[1]].dir = ServiceDir(S_run, file)],
                                 RunitService_new(NamePool[1], <<NamePool[1]>>)),
                         0)>>
    /\ status' = "0"
    /\ pc' = "done"
    /\ UNCHANGED <<fs, proc, cfg, services, slots, fs0, history>>

NextText ==
    \/ \E s \in Texts(MaxText), limit \in 1..MaxWidth, suffix \in Suffixes :
          TrimLongString(s, limit, suffix)
    \/ \E file \in PidFiles : GetPid(file)
    \/ \E texts \in LineTexts : FormatStatusLine(texts)
    \/ \E secs \in Durations : RelativeDuration(secs)
    \/ Exit

SpecText == InitText /\ [][NextText]_vars

\* The pass-through command starts from the same state.
SpecExternal == InitText /\ [][NextExternal]_vars

----------------------------------------------------------------------------
(* Properties of discovery (SpecDiscover).                                 *)

\* A status invocation holds a discovered list.
StatusListed == pc \in {"map", "done"} /\ cfg.mode = "Status" /\ services.ok

IsRow(e) == e.kind = "row"

\* The service lines of the listing written, in the order written.
Rows == SelectSeq(stdout, IsRow)

\* C1 as stated: the discovered list, log companions included, is in
\* ascending byte-wise order of the names.
C1_SortedByName ==
    StatusListed =>
        \A i \in 1..(Len(services.val) - 1) :
            ~ SeqLess(services.val[i + 1].name, services.val[i].name)

\* C1: the discovered list is in strictly ascending order of the service
\* paths (component by component, byte-wise); without log expansion that is
\* the strictly ascending byte-wise order of the names, and with it every
\* entry that breaks the order of the names is a log companion.
C1_SortedByPath ==
    StatusListed =>
        LET v == services.val
        IN  \A i \in 1..(Len(v) - 1) :
                /\ PathLess(v[i].path, v[i + 1].path)
                /\ ~ cfg.log => SeqLess(v[i].name, v[i + 1].name)
                /\ SeqLess(v[i + 1].name, v[i].name) => v[i + 1].name = S_dash_log

C1_ThreeListed ==
    StatusListed /\ ~ cfg.log /\ Len(services.val) >= 3

\* C2: with log expansion every service, with or without a log directory,
\* is immediately followed by its log companion, which is named "- log" and
\* has the path <service>/log; there is no other entry.
C2_LogAfterParent ==
    StatusListed /\ cfg.log =>
        LET v == services.val
        IN  /\ \A i \in 1..Len(v) :
                IF Len(v[i].path) = 1
                THEN /\ v[i].name = v[i].path[1]
                     /\ i < Len(v)
                     /\ v[i + 1] = RunitService_new(S_dash_log, v[i].path \o <<S_log>>)
                ELSE /\ i > 1
                     /\ Len(v[i - 1].path) = 1
                     /\ v[i] = RunitService_new(S_dash_log, v[i - 1].path \o <<S_log>>)
            /\ \A i, j \in 1..Len(v) :
                    i < j /\ Len(v[i].path) = 1 /\ Len(v[j].path) = 1
                        => SeqLess(v[i].name, v[j].name)

C2_TwoLogsListed ==
    /\ StatusListed /\ cfg.log
    /\ Len(services.val) >= 4
    /\ \E i, j \in 1..Len(services.val) :
          /\ services.val[i].name = S_dash_log
          /\ services.val[j].name = S_dash_log
          /\ Node(fs, services.val[i].path).kind = "dir"
          /\ Node(fs, services.val[j].path).kind = "none"
    /\ \E i \in 1..(Len(services.val) - 1) :
          /\ services.val[i].path = <<NamePool[2], S_log>>
          /\ services.val[i + 1].path = <<NamePool[4]>>

----------------------------------------------------------------------------
(* Properties of the status listing (Spec).                                *)

\* The view of discovered record i, built from the present state.
ViewOf(i) == from_runit_service(fs, proc, services.val[i], cfg.tree)

\* A status invocation has written its listing.
StatusDone == pc = "done" /\ cfg.mode = "Status" /\ services.ok

OnlyService(f, path) ==
    [n \in DOMAIN f |-> IF n = path[1] THEN f[n] ELSE [dir |-> NoDir, log |-> NoDir]]

OnlyProcess(pr, pid) ==
    [p \in DOMAIN pr |-> IF pid.ok /\ p = pid.val THEN pr[p] ELSE Dead]

\* C4: a listing always ends with status 0 and one line per discovered
\* record, no record is reported as failed, and the line of a record is the
\* line it gets when no other service and no other process exists.
C4_OneRowPerRecord ==
    StatusDone =>
        /\ status = "0"
        /\ \A k \in 1..Len(stdout) : stdout[k].kind # "failed to process service"
        /\ Len(Rows) = Len(services.val)
        /\ \A i \in 1..Len(Rows) :
              LET svc == services.val[i]
              IN  Rows[i].text =
                      fmt(from_runit_service(OnlyService(fs, svc.path),
                                             OnlyProcess(proc, get_pid(fs, svc)),
                                             svc, cfg.tree).svc)

\* A service with nothing but its directory is listed next to a running one.
C4_DegradedNextToHealthy ==
    /\ StatusDone
    /\ Len(Rows) >= 2
    /\ \E i, j \in 1..Len(slots) :
          /\ ~ slots[i].svc.pid.ok
          /\ slots[i].svc.state = "Unknown"
          /\ ~ slots[i].svc.start_time.ok
          /\ slots[j].svc.pid.ok
          /\ slots[j].svc.command.ok

RECURSIVE AllDigits(_)
AllDigits(s) == s = <<>> \/ (IsDigit(Head(s)) /\ AllDigits(Tail(s)))

\* The pid file of the directory is missing, or holds something that is not
\* a number.
PidFileMissing(d) == ~ d.pid.exists
PidFileNotNumeric(d) ==
    LET s == Trim(d.pid.data)
        t == IF s # <<>> /\ Head(s) \in {43, 45} THEN Tail(s) ELSE s
    IN  d.pid.exists /\ (t = <<>> \/ ~ AllDigits(t))

\* C5: a service whose pid file is missing and one whose pid file is not
\* numeric are both listed with "---" as pid and as command, the view of the
\* second is the view it has when its pid file is removed, and the status is 0.
C5_BadPidLikeNoPid ==
    StatusDone =>
        /\ Len(Rows) = Len(services.val)
        /\ \A i \in 1..Len(Rows) :
              LET svc == services.val[i]
                  d   == Node(fs, svc.path)
              IN  PidFileMissing(d) \/ PidFileNotNumeric(d) =>
                      /\ Field(Rows[i].text, 5) = S_dashes
                      /\ Field(Rows[i].text, 6) = S_dashes
                      /\ slots[i].svc.pid = NoPid
                      /\ slots[i].svc.command = None
                      /\ slots[i].svc =
                             from_runit_service(
                                 WithNode(fs, svc.path, [d EXCEPT !.pid = NoFile]),
                                 proc, svc, cfg.tree).svc
                      /\ status = "0"

C5_BothListed ==
    /\ StatusDone
    /\ Len(Rows) = Len(services.val)
    /\ \E i, j \in 1..Len(Rows) :
          /\ Node(fs, services.val[i].path).kind = "dir"
          /\ PidFileMissing(Node(fs, services.val[i].path))
          /\ PidFileNotNumeric(Node(fs, services.val[j].path))
          /\ Field(Rows[i].text, 3) = Field(Rows[j].text, 3)
          /\ Field(Rows[i].text, 4) = Field(Rows[j].text, 4)
          /\ Field(Rows[j].text, 5) = S_dashes
    /\ \E k \in 1..Len(Rows) :
          Node(fs, services.val[k].path).pid = File(S_12x \o S_nl)

----------------------------------------------------------------------------
(* Properties of enabling and disabling (SpecMutate).                      *)

\* An enable or disable invocation has ended.
Toggled == pc = "done" /\ cfg.mode \in {"Enable", "Disable"}

Target(n) == RunitService_new(n, <<n>>)

toggle(f, mode, n) ==
    IF mode = "Enable" THEN enable(f, Target(n)) ELSE disable(f, Target(n))

\* The target is not valid, or toggling it fails.
TargetFails(f, mode, n) == ~ valid(f, Target(n)) \/ ~ toggle(f, mode, n).ok

Range(seq) == { seq[i] : i \in 1..Len(seq) }

\* C6 as stated: for any list of targets the result is a failure if and only
\* if some target was not valid or its toggle failed.
C6_FailsIffTargetFails ==
    Toggled =>
        (status = "1" <=>
            \E i \in 1..Len(cfg.operands) : TargetFails(fs0, cfg.mode, cfg.operands[i]))

\* C6: every target of a list that is not empty is attempted, in the order
\* of the operands; a target is reported done exactly when it is valid and
\* its toggle succeeds, and then its sentinel is as asked for whatever
\* happened to the others; the result is a failure if and only if some
\* target was not valid or its toggle failed. An empty list is a failure
\* that attempts nothing.
C6_EveryTargetAttempted ==
    Toggled =>
        IF cfg.operands = <<>>
        THEN status = "1" /\ stdout = <<>> /\ fs = fs0
        ELSE /\ Len(stdout) = Len(cfg.operands)
             /\ \A i \in 1..Len(stdout) :
                   /\ stdout[i].idx = i
                   /\ stdout[i].text = cfg.operands[i]
                   /\ stdout[i].kind = "done."
                         <=> ~ TargetFails(fs0, cfg.mode, cfg.operands[i])
                   /\ stdout[i].kind = "done."
                         => fs[cfg.operands[i]].dir.down = (cfg.mode = "Disable")
             /\ status = "1" <=>
                   \E i \in 1..Len(cfg.operands) :
                       TargetFails(fs0, cfg.mode, cfg.operands[i])

\* The first target fails, the second is toggled all the same.
C6_SecondAppliedAfterFailure ==
    /\ Toggled
    /\ Len(cfg.operands) = 2
    /\ stdout[1].kind # "done."
    /\ stdout[2].kind = "done."
    /\ fs[cfg.operands[2]] # fs0[cfg.operands[2]]
    /\ status = "1"

\* C7: a target without the supervise directory, one that does not exist
\* included, is reported as not valid, the result is a failure, and nothing
\* under the target is created or removed, enabling or disabling.
C7_InvalidTargetUntouched ==
    Toggled =>
        \A i \in 1..Len(cfg.operands) :
            ~ Node(fs0, <<cfg.operands[i]>>).supervise =>
                /\ Len(stdout) >= i
                /\ stdout[i].kind = "failed! service not valid"
                /\ fs[cfg.operands[i]] = fs0[cfg.operands[i]]
                /\ status = "1"

\* Disabling a directory that could take a sentinel but has no supervise
\* directory, next to a target that is disabled.
C7_InvalidNextToValid ==
    /\ Toggled /\ cfg.mode = "Disable"
    /\ \E i, j \in 1..Len(cfg.operands) :
          LET d == Node(fs0, <<cfg.operands[i]>>)
          IN  /\ d.kind = "dir" /\ d.writable /\ ~ d.supervise /\ ~ d.down
              /\ stdout[j].kind = "done."
              /\ fs # fs0

\* C8: enabling a service whose sentinel is absent succeeds and changes
\* nothing; enabling twice gives the result and the filesystem of enabling
\* once, as a call and as the targets of one invocation.
C8_EnableIdempotent ==
    /\ \A n \in TargetNames :
          LET e1 == enable(fs, Target(n))
              e2 == enable(e1.fs, Target(n))
          IN  /\ (Node(fs, <<n>>).kind = "dir" /\ ~ Node(fs, <<n>>).down)
                     => e1.ok /\ e1.fs = fs
              /\ e2.ok = e1.ok
              /\ e2.fs = e1.fs
    /\ Toggled /\ cfg.mode = "Enable" =>
          /\ \A i \in 1..Len(cfg.operands) :
                (valid(fs0, Target(cfg.operands[i])) /\ ~ fs0[cfg.operands[i]].dir.down)
                    => /\ stdout[i].kind = "done."
                       /\ fs[cfg.operands[i]] = fs0[cfg.operands[i]]
          /\ (Len(cfg.operands) = 2 /\ cfg.operands[1] = cfg.operands[2]) =>
                /\ stdout[1].kind = "done." => stdout[2].kind = "done."
                /\ fs = do_enable_disable(fs0, [cfg EXCEPT !.operands = <<cfg.operands[1]>>]).fs

\* A disabled service is enabled twice in one invocation.
C8_EnabledTwice ==
    /\ Toggled /\ cfg.mode = "Enable"
    /\ Len(cfg.operands) = 2
    /\ cfg.operands[1] = cfg.operands[2]
    /\ fs0[cfg.operands[1]].dir.down
    /\ ~ fs[cfg.operands[1]].dir.down
    /\ status = "0"

\* The service directory d with the sentinel present or absent.
WithDown(d, b) == [d EXCEPT !.dir.down = b]

\* C9 as stated: disabling a service creates the sentinel and nothing else,
\* and enabling it afterwards restores the filesystem.
C9_RoundTripRestores ==
    \A n \in TargetNames :
        LET d == disable(fs, Target(n))
        IN  valid(fs, Target(n)) /\ d.ok =>
                /\ ~ fs[n].dir.down
                /\ d.fs = [fs EXCEPT ![n] = WithDown(@, TRUE)]
                /\ enable(d.fs, Target(n)).fs = fs

\* C9: disabling a service whose sentinel is absent creates the sentinel and
\* nothing else, and enabling it afterwards removes the sentinel and restores
\* the filesystem; disabling a service whose sentinel is present changes
\* nothing; enabling a disabled service removes the sentinel and nothing
\* else; an invocation changes nothing but the sentinels of its targets.
C9_OnlyTheSentinel ==
    /\ \A n \in TargetNames :
          LET d == disable(fs, Target(n))
              e == enable(fs, Target(n))
          IN  /\ (valid(fs, Target(n)) /\ d.ok /\ ~ fs[n].dir.down) =>
                     /\ d.fs = [fs EXCEPT ![n] = WithDown(@, TRUE)]
                     /\ d.fs # fs
                     /\ enable(d.fs, Target(n)).ok
                     /\ enable(d.fs, Target(n)).fs = fs
              /\ (d.ok /\ fs[n].dir.down) => d.fs = fs
              /\ ~ d.ok => d.fs = fs
              /\ (e.ok /\ fs[n].dir.down) =>
                     /\ e.fs = [fs EXCEPT ![n] = WithDown(@, FALSE)]
                     /\ e.fs # fs
              /\ ~ e.ok => e.fs = fs
    /\ Toggled =>
          \A n \in Names :
              /\ fs[n] = WithDown(fs0[n], fs[n].dir.down)
              /\ n \notin Range(cfg.operands) => fs[n] = fs0[n]

\* One enabled service has been disabled while another service, not named,
\* keeps its sentinel.
C9_DisabledOneOfTwo ==
    /\ Toggled /\ cfg.mode = "Disable" /\ status = "0"
    /\ \E n, m \in TargetNames :
          /\ n \in Range(cfg.operands)
          /\ m \notin Range(cfg.operands)
          /\ ~ fs0[n].dir.down /\ fs[n].dir.down
          /\ fs0[m].dir.kind = "dir" /\ ~ fs0[m].dir.down
          /\ enable(fs, Target(n)).fs = fs0

----------------------------------------------------------------------------
(* Properties of the whole program (SpecDiscover).                         *)

\* C10: listing the status changes nothing in the filesystem, from the
\* discovery to the written listing; the filesystem differs from the one the
\* invocation started with only in an enable or disable invocation, and then
\* only in sentinels.
C10_StatusReadOnly ==
    /\ args.command \in {"none", "status"} => fs = fs0
    /\ fs # fs0 =>
          /\ Toggled
          /\ args.command \in {"enable", "disable"}
          /\ \A n \in Names : fs[n] = WithDown(fs0[n], fs[n].dir.down)

\* The status of two services or more has been listed after one was disabled.
C10_ListedAfterDisable ==
    /\ StatusDone
    /\ args.command = "status"
    /\ Len(Rows) >= 2
    /\ \E n \in Names : fs[n].dir.down
    /\ fs = fs0

----------------------------------------------------------------------------
(* Properties of the text utilities (SpecText).                            *)

\* trim_long_string has returned.
Trimmed == pc = "done" /\ args.command = "trim_long_string"

\* What the call returned.
Returned == stdout[1].text

\* C11 as stated: trimming what trim_long_string returned, to the same limit
\* with the same suffix, returns it unchanged.
C11_TrimIdempotent ==
    Trimmed => trim_long_string(Returned, args.limit, args.suffix) = Returned

\* C12: what trim_long_string returns is never longer than limit characters.
C12_AtMostLimitChars ==
    Trimmed => CharCount(Returned) <= args.limit

\* A text of multi-byte characters has been cut to exactly limit characters,
\* which are more than limit bytes.
C12_CutMultiByte ==
    /\ Trimmed
    /\ Returned # args.s
    /\ CharCount(args.s) > args.limit
    /\ CharCount(Returned) = args.limit
    /\ Len(Returned) > args.limit
    /\ args.suffix # <<>>

\* format_status_line has returned.
Formatted == pc = "done" /\ args.command = "format_status_line"

S_dots == <<46, 46, 46>>

C14_DecidedByCharacters ==
    Trimmed => (CharCount(args.s) < args.limit => Returned = args.s)

\* relative_duration has returned.
Humanized == pc = "done" /\ args.command = "relative_duration"

\* The names of the units, from the second to the year.
UnitNames ==
    << <<115, 101, 99, 111, 110, 100>>, <<109, 105, 110, 117, 116, 101>>,
       <<104, 111, 117, 114>>, <<100, 97, 121>>, <<119, 101, 101, 107>>,
       <<109, 111, 110, 116, 104>>, <<121, 101, 97, 114>> >>

\* The largest unit of which secs holds one or more, 0 when there is none.
LargestUnit(secs) ==
    IF secs < 1 THEN 0
    ELSE CHOOSE u \in 1..7 :
            /\ secs \div UnitSeconds[u] > 0
            /\ \A v \in (u + 1)..7 : secs \div UnitSeconds[v] = 0

\* C15: relative_duration returns "<n> <unit>" for the largest of year (365
\* days), month (30 days), week, day, hour, minute, second of which the
\* duration holds n >= 1, floored, with an "s" behind the unit exactly when
\* n > 1, and "0 seconds" when it holds none.
C15_LargestUnit ==
    Humanized =>
        LET u == LargestUnit(args.secs)
            n == IF u = 0 THEN 0 ELSE args.secs \div UnitSeconds[u]
        IN  Returned =
                IF u = 0 THEN <<48, 32>> \o UnitNames[1] \o <<115>>
                ELSE NatDigits(n) \o <<32>> \o UnitNames[u]
                     \o (IF n > 1 THEN <<115>> ELSE <<>>)

\* A second less than two months is "1 month".
C15_OneMonth ==
    /\ Humanized
    /\ args.secs = 2 * UnitSeconds[6] - 1
    /\ Returned = <<49, 32>> \o UnitNames[6]

\* The text is one count and one unit: digits, one space, the name of a
\* unit with or without "s".
IsPair(t) ==
    /\ Cardinality({ i \in 1..Len(t) : t[i] = 32 }) = 1
    /\ LET sp == CHOOSE i \in 1..Len(t) : t[i] = 32
       IN  /\ sp > 1
           /\ AllDigits(SubSeq(t, 1, sp - 1))
           /\ \E r \in 1..7 :
                 SubSeq(t, sp + 1, Len(t)) \in {UnitNames[r], UnitNames[r] \o <<115>>}

\* The rank of the unit of the text: 1 for the second, 7 for the year.
UnitRank(t) ==
    LET sp == CHOOSE i \in 1..Len(t) : t[i] = 32
    IN  CHOOSE r \in 1..7 :
            SubSeq(t, sp + 1, Len(t)) \in {UnitNames[r], UnitNames[r] \o <<115>>}

\* C16: what relative_duration returns is exactly one count and one unit,
\* and the unit of a duration never ranks below the unit of a shorter one.
C16_UnitMonotonic ==
    Humanized =>
        /\ IsPair(Returned)
        /\ \A d \in Durations :
              d <= args.secs =>
                  UnitRank(relative_duration(d)) <= UnitRank(Returned)

\* A year, with a shorter duration that is counted in months.
C16_YearAboveMonths ==
    /\ Humanized
    /\ UnitRank(Returned) = 7
    /\ \E d \in Durations : d < args.secs /\ UnitRank(relative_duration(d)) = 6

\* The widths of the first six columns.
FixedWidths == <<1, 20, 7, 9, 8, 17>>

\* The line made of the fields, each behind one space.
RECURSIVE Rebuild(_)
Rebuild(f) == IF f = <<>> THEN <<>> ELSE <<32>> \o Head(f) \o Rebuild(Tail(f))

\* C20 as stated: a status line is its 7 columns, each behind one space, the
\* first six exactly 1, 20, 7, 9, 8 and 17 characters wide, the last being
\* the time text as it is, not padded and not truncated.
C20_LastColumnAsIs ==
    Formatted =>
        LET f == parse_status_line(Returned)
        IN  /\ Len(f) = 7
            /\ Rebuild(f) = Returned
            /\ \A i \in 1..6 : CharCount(f[i]) = FixedWidths[i]
            /\ f[7] = args.texts[7]

\* C20: a status line is its 7 columns, each behind one space; the first six
\* are exactly 1, 20, 7, 9, 8 and 17 characters wide and the last, the time,
\* is exactly 99 characters wide, whatever the texts; each column holds its
\* text as trim_long_string returns it, followed by spaces; a time of less
\* than 99 bytes is padded with spaces, a longer one is cut to 96
\* characters and "...".
C20_FixedWidthColumns ==
    Formatted =>
        LET f == parse_status_line(Returned)
            t == args.texts[7]
        IN  /\ Len(f) = 7
            /\ Rebuild(f) = Returned
            /\ CharCount(Returned) = 168
            /\ \A i \in 1..6 : CharCount(f[i]) = FixedWidths[i]
            /\ CharCount(f[7]) = 99
            /\ \A i \in 1..7 :
                  LET shown == trim_long_string(args.texts[i], StatusColumns[i][1],
                                                StatusColumns[i][2])
                  IN  f[i] = shown \o Spaces(StatusColumns[i][1] - CharCount(shown))
            /\ Len(t) < 99 => f[7] = t \o Spaces(99 - CharCount(t))
            /\ Len(t) >= 99 => f[7] = TakeChars(t, 96) \o S_dots

\* A line with a name of 10 two-byte characters, a pid of 9 digits and a
\* short time.
C20_MultiByteName ==
    /\ Formatted
    /\ args.texts[2] = Repeat(<<195, 169>>, 10)
    /\ Len(args.texts[5]) = 9
    /\ args.texts[7] = relative_duration(180)
    /\ parse_status_line(Returned)[7] # args.texts[7]

----------------------------------------------------------------------------
(* More properties of the status listing (Spec).                           *)

\* The state, the glyph and the text that go with the stat file: its
\* trimmed content when it can be read as text and is one of the three
\* words, the unknown state otherwise.
StateOfStat(stat) ==
    LET word == IF stat.exists /\ ValidUtf8(stat.data) THEN Trim(stat.data) ELSE <<>>
    IN  IF word = S_run THEN <<"Run", S_check, S_run>>
        ELSE IF word = S_down THEN <<"Down", S_X, S_down>>
        ELSE IF word = S_finish THEN <<"Finish", S_X, S_finish>>
        ELSE <<"Unknown", S_qmark, S_na>>

\* C17: the state of every listed service is Run, Down or Finish exactly when
\* the trimmed content of its supervise/stat is "run", "down" or "finish",
\* and Unknown when the file is missing, is not text, or holds anything
\* else; its line shows the check mark and "run", "X" and "down", "X" and
\* "finish", or "?" and "n/a".
C17_StateFromStat ==
    StatusDone =>
        /\ Len(Rows) = Len(services.val)
        /\ \A i \in 1..Len(Rows) :
              LET want == StateOfStat(Node(fs, services.val[i].path).stat)
              IN  /\ slots[i].svc.state = want[1]
                  /\ Field(Rows[i].text, 1) = want[2]
                  /\ Field(Rows[i].text, 3) = want[3]

\* A listing with a service in state finish and one whose stat is not text.
C17_FinishAndUnknown ==
    /\ StatusDone
    /\ Len(Rows) = Len(services.val)
    /\ \E i, k \in 1..Len(Rows) :
          /\ slots[i].svc.state = "Finish"
          /\ Field(Rows[i].text, 1) = S_X
          /\ Field(Rows[i].text, 3) = S_finish
          /\ ~ ValidUtf8(Node(fs, services.val[k].path).stat.data)
          /\ slots[k].svc.state = "Unknown"
          /\ Field(Rows[k].text, 3) = S_na

----------------------------------------------------------------------------
(* More properties of the whole program (SpecDiscover).                    *)

\* The service directory cannot be listed: it does not exist, or one of the
\* directories in it has a name that is not UTF-8.
CannotList ==
    \/ cfg.svdir # "SVDIR"
    \/ \E n \in Names : fs[n].dir.kind = "dir" /\ ~ ValidUtf8(n)

IsHeader(e) == e.kind = "header"

\* C18: a status invocation ends with status 1 exactly when the discovery
\* fails, which it does exactly when the service directory cannot be listed,
\* and then nothing is listed; otherwise it ends with status 0 and writes
\* the header and one line per discovered record, services without pid
\* included, and only the header when no service is discovered.
C18_FailsIffDiscoveryFails ==
    (pc = "done" /\ cfg.mode = "Status") =>
        /\ status \in {"0", "1"}
        /\ status = "1" <=> ~ services.ok
        /\ ~ services.ok <=> CannotList
        /\ ~ services.ok => SelectSeq(stdout, IsHeader) = <<>> /\ Rows = <<>>
        /\ services.ok =>
              /\ Len(SelectSeq(stdout, IsHeader)) = 1
              /\ Len(Rows) = Len(services.val)
              /\ services.val = <<>> =>
                    stdout = <<Event("blank", <<>>, 0), Event("header", Header, 0),
                               Event("blank", <<>>, 0)>>

\* Nothing but the header is listed for a service directory that holds a
\* plain file and no directory.
C18_OnlyTheHeader ==
    /\ pc = "done" /\ cfg.mode = "Status"
    /\ services = Ok(<<>>)
    /\ status = "0"
    /\ Len(stdout) = 3
    /\ \E n \in Names : fs[n].dir.kind = "file"
    /\ \A n \in Names : fs[n].dir.kind # "dir"

----------------------------------------------------------------------------
(* Properties of the pass-through command (SpecExternal).                  *)

\* A pass-through invocation has ended.
Passed == pc = "done" /\ cfg.mode = "External"

\* Where in what was done the event of that kind is, 0 when it is not there.
At(kind) ==
    IF \E i \in 1..Len(stdout) : stdout[i].kind = kind
    THEN CHOOSE i \in 1..Len(stdout) : stdout[i].kind = kind
    ELSE 0

\* C19: with a sub-command and an argument or more, SVDIR is set to the
\* service directory before the sv program is run, the program is run once
\* with the operands of the command line, unchanged and in order, and the
\* result is a success exactly when the program started and exited with
\* code 0: not started, a code that is not 0, and no code at all are
\* failures. With the sub-command alone nothing is run and it is a failure.
C19_PassThrough ==
    Passed =>
        IF Len(args.operands) < 2
        THEN status = "1" /\ stdout = <<>>
        ELSE /\ Cardinality({ i \in 1..Len(stdout) : stdout[i].kind = "run" }) = 1
             /\ At("set_var SVDIR") > 0
             /\ At("set_var SVDIR") < At("run")
             /\ stdout[At("set_var SVDIR")].text = args.dir
             /\ stdout[At("run")].text = args.operands
             /\ At("ended") > 0 <=> At("not started") = 0
             /\ status = "0" <=>
                   /\ At("ended") > 0
                   /\ stdout[At("ended")].text = [ok |-> TRUE, val |-> 0]
             /\ status \in {"0", "1"}

\* The program was run with three operands and was ended by a signal.
C19_EndedBySignal ==
    /\ Passed
    /\ Len(args.operands) = 3
    /\ args.operands[2] # args.operands[3]
    /\ At("ended") > 0
    /\ ~ stdout[At("ended")].text.ok
    /\ status = "1"

----------------------------------------------------------------------------
(* Properties of sequences of enable and disable (SpecSequence).           *)

\* C21 as stated: a valid service is enabled exactly when the last toggle of
\* it that succeeded was an enable, or when no invocation named it and it
\* was enabled before the first.
C21_LastToggleOrNeverNamed ==
    \A n \in Names :
        valid(fs, Target(n)) =>
            (enabled(fs, Target(n)) <=>
                \/ history.last[n] = "Enable"
                \/ ~ history.named[n] /\ enabled(history.first, Target(n)))

\* C21: after any sequence of enable and disable invocations a valid service
\* is enabled exactly when the last toggle of it that succeeded was an
\* enable, or when no toggle of it succeeded and it was enabled before the
\* first invocation; a service that was never named, or that is not valid,
\* is as it was before the first invocation, and no invocation changes
\* whether a service is valid.
C21_LastSuccessfulToggle ==
    \A n \in Names :
        /\ valid(fs, Target(n)) = valid(history.first, Target(n))
        /\ valid(fs, Target(n)) =>
              (enabled(fs, Target(n)) <=>
                  \/ history.last[n] = "Enable"
                  \/ history.last[n] = "none" /\ enabled(history.first, Target(n)))
        /\ (~ history.named[n] \/ ~ valid(history.first, Target(n))) =>
              /\ fs[n] = history.first[n]
              /\ history.last[n] = "none"

\* A service that was disabled at first is enabled, a second one was named
\* and is as it was because its toggle failed, and the running invocation
\* is a disable that is not the first invocation to name the first service.
C21_EnabledAfterDisabled ==
    /\ pc = "done" /\ cfg.mode = "Disable" /\ status = "1"
    /\ \E n, m \in TargetNames :
          /\ n # m
          /\ ~ enabled(history.first, Target(n))
          /\ enabled(fs, Target(n))
          /\ history.last[n] = "Enable"
          /\ valid(fs, Target(m))
          /\ history.named[m]
          /\ history.last[m] = "none"
          /\ enabled(fs, Target(m))
          /\ cfg.operands = <<m>>

----------------------------------------------------------------------------
(* Properties of the discovered list (SpecDiscover).                       *)

\* The filter of the invocation matches the name: there is no filter, or
\* the filter is a run of bytes of the name, byte for byte.
FilterAdmits(n) ==
    \/ cfg.operands = <<>>
    \/ \E i \in 1..(Len(n) + 1), j \in 0..Len(n) : SubSeq(n, i, j) = cfg.operands[1]

\* The directories of the root that the filter admits.
Admitted == { n \in Names : fs[n].dir.kind = "dir" /\ FilterAdmits(n) }

\* How many records of the discovered list are equal to r.
Count(r) == Cardinality({ i \in 1..Len(services.val) : services.val[i] = r })

\* C22: when the root is listed, the discovered list holds exactly one
\* record (name, root/name) for every directory of the root whose name
\* contains the filter, byte for byte, and for every directory when there
\* is no filter, and none for any other entry; with log expansion it holds
\* one more record ("- log", root/name/log) for each of these directories,
\* whether the log directory exists or not, and none for another; it holds
\* k records without expansion and 2k with it.
C22_AdmitsFilteredDirectories ==
    StatusListed =>
        LET v == services.val
            k == Cardinality(Admitted)
        IN  /\ \A n \in Names :
                  /\ Count(RunitService_new(n, <<n>>)) = IF n \in Admitted THEN 1 ELSE 0
                  /\ Count(RunitService_new(S_dash_log, <<n, S_log>>)) =
                        IF n \in Admitted /\ cfg.log THEN 1 ELSE 0
            /\ \A i \in 1..Len(v) :
                  /\ v[i].path[1] \in Admitted
                  /\ v[i] \in { RunitService_new(v[i].path[1], <<v[i].path[1]>>),
                                RunitService_new(S_dash_log, <<v[i].path[1], S_log>>) }
            /\ Len(v) = IF cfg.log THEN 2 * k ELSE k

\* With log expansion and the filter "b": "b" and "a-b" are admitted, the
\* directory "B" is not, the plain file "a" is not; 4 records.
C22_CaseAndFileRejected ==
    /\ StatusListed /\ cfg.log
    /\ cfg.operands = << <<98>> >>
    /\ fs[<<66>>].dir.kind = "dir"
    /\ fs[<<97>>].dir.kind = "file"
    /\ Admitted = { <<98>>, <<97, 45, 98>> }
    /\ Len(services.val) = 4

----------------------------------------------------------------------------
(* Properties of the views (Spec).                                         *)

\* The pid file of the directory holds a decimal number and white space
\* around it.
PidFileNumeric(d) ==
    d.pid.exists /\ Trim(d.pid.data) # <<>> /\ AllDigits(Trim(d.pid.data))

\* The process table has the command line of the pid.
LookupSucceeds(p) == p \in DOMAIN proc /\ proc[p].cmdline.exists

\* What is written about record i of the kind, in a verbose listing.
About(i, kind) ==
    { k \in 1..Len(stdout) : stdout[k].idx = i /\ stdout[k].kind = kind }

\* C23: a view whose pid file holds a number but whose process is not in
\* the process table reports the pid, has no command, and has exactly one
\* message, which says that the command could not be got; its line shows
\* the pid and "---" as command, and a verbose listing writes the message
\* once. A view has a command only when it has a pid and the process table
\* has the command line of that pid, and then the command is the first
\* piece of that command line.
C23_PidWithoutCommand ==
    StatusListed =>
        \A i \in 1..Len(slots) :
            slots[i].done =>
                LET d == Node(fs, services.val[i].path)
                    v == slots[i].svc
                    p == DecValue(Trim(d.pid.data), 0)
                IN  /\ (PidFileNumeric(d) /\ ~ LookupSucceeds(p)) =>
                          /\ v.pid = Some(p)
                          /\ v.command = None
                          /\ Len(slots[i].messages) = 1
                          /\ slots[i].messages[1].kind = "failed to get command for pid"
                          /\ slots[i].messages[1].pid = p
                          /\ pc = "done" =>
                                /\ Field(Rows[i].text, 5) = Trim(d.pid.data)
                                /\ Field(Rows[i].text, 6) = S_dashes
                                /\ Cardinality(About(i, "failed to get command for pid"))
                                      = IF cfg.verbose > 0 THEN 1 ELSE 0
                                /\ About(i, "failed to get pid") = {}
                    /\ v.command.ok =>
                          /\ v.pid.ok
                          /\ PidFileNumeric(d) /\ v.pid.val = p
                          /\ LookupSucceeds(p)
                          /\ v.command.val = UpToNul(proc[p].cmdline.data)
                          /\ slots[i].messages = <<>>

\* A verbose listing of a service whose pid names no process next to one
\* whose process is alive.
C23_DeadNextToAlive ==
    /\ StatusDone /\ cfg.verbose > 0
    /\ Len(Rows) = Len(services.val)
    /\ \E i, j \in 1..Len(Rows) :
          /\ PidFileNumeric(Node(fs, services.val[i].path))
          /\ slots[i].svc.pid.ok
          /\ ~ LookupSucceeds(slots[i].svc.pid.val)
          /\ Field(Rows[i].text, 6) = S_dashes
          /\ Field(Rows[i].text, 5) # S_dashes
          /\ About(i, "failed to get command for pid") # {}
          /\ slots[j].svc.command.ok
          /\ Field(Rows[j].text, 6) # S_dashes

----------------------------------------------------------------------------
(* Properties of get_pid (SpecText).                                       *)

\* get_pid has returned.
GotPid == pc = "done" /\ args.command = "get_pid"

\* The text is the decimal representation of a positive integer: digits,
\* or "+" and digits, and not zero.
IsPositiveDecimal(t) ==
    LET digits == IF t # <<>> /\ Head(t) = 43 THEN Tail(t) ELSE t
    IN  /\ digits # <<>>
        /\ AllDigits(digits)
        /\ StripZeros(digits) # <<>>

\* C24 as stated: get_pid succeeds only when the trimmed content of
\* supervise/pid is the decimal representation of a positive integer; zero
\* and negative numbers are errors.
C24_OnlyPositive ==
    GotPid =>
        (Returned.ok =>
            /\ args.file.exists
            /\ IsPositiveDecimal(Trim(args.file.data))
            /\ Returned.val > 0)

----------------------------------------------------------------------------
(* Properties of the verbose listing (Spec).                               *)

\* The event is a message about a service.
IsDiagnostic(e) ==
    e.kind \in {"failed to get command for pid", "failed to get pid"}

----------------------------------------------------------------------------
(* Properties of the names of the discovered list (SpecDiscover).          *)

\* The base name of a path: its last component.
BaseName(path) == path[Len(path)]

\* C26 as stated: no two discovered records share a name, and the name of
\* every record is the base name of its directory, with or without log
\* expansion.
C26_NamesUnique ==
    StatusListed =>
        LET v == services.val
        IN  /\ \A i \in 1..Len(v) : v[i].name = BaseName(v[i].path)
            /\ \A i, j \in 1..Len(v) : i # j => v[i].name # v[j].name

\* C26: no two discovered records share a path; the name of the record of a
\* service is the base name of its directory and no two services share a
\* name, so without log expansion every name is unique; the record of
\* every log companion is named "- log", which is not the base name "log"
\* of its directory, so with log expansion and two services or more the
\* names are not unique.
C26_PathsUnique ==
    StatusListed =>
        LET v == services.val
        IN  /\ \A i, j \in 1..Len(v) : i # j => v[i].path # v[j].path
            /\ \A i \in 1..Len(v) :
                  IF Len(v[i].path) = 1
                  THEN v[i].name = BaseName(v[i].path)
                  ELSE /\ cfg.log
                       /\ BaseName(v[i].path) = S_log
                       /\ v[i].name = S_dash_log
            /\ \A i, j \in 1..Len(v) :
                  (i # j /\ Len(v[i].path) = 1 /\ Len(v[j].path) = 1)
                      => v[i].name # v[j].name
            /\ ~ cfg.log =>
                  \A i, j \in 1..Len(v) : i # j => v[i].name # v[j].name

\* Three services with log expansion: three records named "- log", each
\* with its own path.
C26_ThreeCompanions ==
    /\ StatusListed /\ cfg.log
    /\ Len(services.val) = 6
    /\ Cardinality({ i \in 1..6 : services.val[i].name = S_dash_log }) = 3
    /\ Cardinality({ services.val[i].path : i \in 1..6 }) = 6

----------------------------------------------------------------------------
(* Properties of the time column (Spec).                                   *)

\* C27 as stated: a service whose supervise/stat is missing has no start
\* time and no message about it, its line shows "---" as time, and the
\* other six columns are those of the same view with a start time.
C27_TimePlaceholder ==
    StatusDone =>
        /\ Len(Rows) = Len(services.val)
        /\ \A i \in 1..Len(Rows) :
              ~ Node(fs, services.val[i].path).stat.exists =>
                  LET v     == slots[i].svc
                      timed == fmt([v EXCEPT !.start_time = [ok |-> TRUE, val |-> 180]])
                  IN  /\ ~ v.start_time.ok
                      /\ \A m \in 1..Len(slots[i].messages) :
                            slots[i].messages[m].kind
                                \in {"failed to get command for pid", "failed to get pid"}
                      /\ \A c \in 1..6 : Field(Rows[i].text, c) = Field(timed, c)
                      /\ Field(Rows[i].text, 7) = S_dashes

====
